---- MODULE Spec2Model ----
(***************************************************************************)
(* jemopt: the benchmark harness that evaluates one jemalloc tuning string *)
(* by running the agent in a container, holding a measurement window,      *)
(* probing the resident memory of the four agent processes and stopping    *)
(* the container.  Text is modelled as sequences of one-character strings. *)
(***************************************************************************)
EXTENDS Integers, Sequences, FiniteSets, TLC

\* ------------------------------------------------------------------ bounds

\* threads that may call the harness (rayon workers of the search)
NumProcs == 2
\* evaluations a search run issues, enough to pass the port wraparound
MaxEvals == 204
\* largest measurement window, in clock ticks
MaxSeconds == 1
\* lines of diagnostic output the probe is given
MaxLines == 4
\* genes of a chromosome that differ from 0
MaxVaried == 1
\* evaluations the threads of a search run begin once the counter has
\* passed the upper bound of the pool
MaxConcEvals == 4

\* ------------------------------------------------------- program constants

PortLow == 12500
PortHigh == 12700
U16 == 65536
NumSeries == 10000
RUN_FOR_SECONDS == 60
GenesSize == 7
Alleles == 20

Procs == 1..NumProcs

\* Option<T>: None is the empty sequence, Some(x) the one-element sequence.
None == <<>>
Some(x) == <<x>>

\* ------------------------------------------------------------- MallocConf

\* variant: the first bucket of dss is closed at 3 (0..=3)
MallocConfFromInclusive(value) ==
    [tchache_max |-> value[1] * 6500,
     oversize_threshold |-> value[2] * 6500,
     narenas |-> value[3],
     dss |-> IF value[4] <= 3 THEN "disabled"
             ELSE IF value[4] < 7 THEN "primary"
             ELSE "secondary",
     background_thread |-> value[5] > 5,
     muzzy_decay_ms |-> value[6] * 100,
     lg_extent_max_active_fit |-> value[7]]

\* impl From<&[usize]> for MallocConf; value[0] of the code is value[1] here
MallocConfFrom(value) ==
    [tchache_max |-> value[1] * 6500,
     oversize_threshold |-> value[2] * 6500,
     narenas |-> value[3],
     dss |-> IF 0 <= value[4] /\ value[4] < 3 THEN "disabled"
             ELSE IF 3 <= value[4] /\ value[4] < 7 THEN "primary"
             ELSE "secondary",
     background_thread |-> value[5] > 5,
     muzzy_decay_ms |-> value[6] * 100,
     lg_extent_max_active_fit |-> value[7]]

DigitStr(d) ==
    CASE d = 0 -> "0" [] d = 1 -> "1" [] d = 2 -> "2" [] d = 3 -> "3"
      [] d = 4 -> "4" [] d = 5 -> "5" [] d = 6 -> "6" [] d = 7 -> "7"
      [] d = 8 -> "8" [] d = 9 -> "9"

\* Display of a usize: its decimal digits
RECURSIVE ToDecimal(_)
ToDecimal(n) ==
    IF n < 10 THEN DigitStr(n) ELSE ToDecimal(n \div 10) \o DigitStr(n % 10)

\* variant: narenas and background_thread change places
ConfFieldsSwapped(c) ==
    << <<"narenas", ToDecimal(c.narenas)>>,
       <<"background_thread", IF c.background_thread THEN "true" ELSE "false">>,
       <<"tcache", "false">>,
       <<"dirty_decay_ms", "0">>,
       <<"muzzy_decay_ms", ToDecimal(c.muzzy_decay_ms)>>,
       <<"tcache_max", ToDecimal(c.tchache_max)>>,
       <<"oversize_threshold", ToDecimal(c.oversize_threshold)>>,
       <<"dss", c.dss>>,
       <<"lg_extent_max_active_fit", ToDecimal(c.lg_extent_max_active_fit)>> >>

\* the key:value fields of the format string of to_string, in its order
ConfFields(c) ==
    << <<"background_thread", IF c.background_thread THEN "true" ELSE "false">>,
       <<"narenas", ToDecimal(c.narenas)>>,
       <<"tcache", "false">>,
       <<"dirty_decay_ms", "0">>,
       <<"muzzy_decay_ms", ToDecimal(c.muzzy_decay_ms)>>,
       <<"tcache_max", ToDecimal(c.tchache_max)>>,
       <<"oversize_threshold", ToDecimal(c.oversize_threshold)>>,
       <<"dss", c.dss>>,
       <<"lg_extent_max_active_fit", ToDecimal(c.lg_extent_max_active_fit)>> >>

RECURSIVE JoinFields(_)
JoinFields(fs) ==
    IF fs = <<>> THEN ""
    ELSE fs[1][1] \o ":" \o fs[1][2]
           \o (IF Len(fs) > 1 THEN "," ELSE "") \o JoinFields(Tail(fs))

\* impl ToString for MallocConf
to_string(c) == JoinFields(ConfFields(c))

\* chromosomes: GenesSize alleles of 0..Alleles-1, at most MaxVaried of them
\* not 0
GeneVectors ==
    UNION {{[j \in 1..GenesSize |-> IF j \in S THEN a[j] ELSE 0] :
               a \in [S -> 1..(Alleles - 1)]} :
           S \in {T \in SUBSET (1..GenesSize) : Cardinality(T) <= MaxVaried}}

\* ------------------------------------------------------------ MemoryStats

\* variant: a reading is kept as soon as one role is positive
MemoryStatsNewAny(agent, process_agent, security_agent, trace_agent) ==
    IF agent > 0 \/ process_agent > 0 \/ security_agent > 0 \/ trace_agent > 0
    THEN Some([agent |-> agent, process_agent |-> process_agent,
               security_agent |-> security_agent, trace_agent |-> trace_agent])
    ELSE None

\* variant: >= 0 in place of > 0
MemoryStatsNewNonNeg(agent, process_agent, security_agent, trace_agent) ==
    IF agent >= 0 /\ process_agent >= 0 /\ security_agent >= 0 /\ trace_agent >= 0
    THEN Some([agent |-> agent, process_agent |-> process_agent,
               security_agent |-> security_agent, trace_agent |-> trace_agent])
    ELSE None

\* MemoryStats::new: Some only when all four values are > 0
MemoryStatsNew(agent, process_agent, security_agent, trace_agent) ==
    IF agent > 0 /\ process_agent > 0 /\ security_agent > 0 /\ trace_agent > 0
    THEN Some([agent |-> agent, process_agent |-> process_agent,
               security_agent |-> security_agent, trace_agent |-> trace_agent])
    ELSE None

total(m) == m.agent + m.process_agent + m.security_agent + m.trace_agent

\* ------------------------------------------------------- text and patterns

Digit == {"0", "1", "2", "3", "4", "5", "6", "7", "8", "9"}

DigitVal(c) ==
    CASE c = "0" -> 0 [] c = "1" -> 1 [] c = "2" -> 2 [] c = "3" -> 3
      [] c = "4" -> 4 [] c = "5" -> 5 [] c = "6" -> 6 [] c = "7" -> 7
      [] c = "8" -> 8 [] c = "9" -> 9

\* str::parse::<usize> of a non-empty run of decimal digits (leading zeros
\* allowed); the runs of the model stay far below usize::MAX, where the
\* parse would fail and expect() panic
RECURSIVE Parse(_)
Parse(d) ==
    IF d = <<>> THEN 0
    ELSE Parse(SubSeq(d, 1, Len(d) - 1)) * 10 + DigitVal(d[Len(d)])

\* str::split("\n"): the pieces between newlines, the last one included
RECURSIVE SplitFrom(_, _, _)
SplitFrom(s, i, cur) ==
    IF i > Len(s) THEN <<cur>>
    ELSE IF s[i] = "\n" THEN <<cur>> \o SplitFrom(s, i + 1, <<>>)
    ELSE SplitFrom(s, i + 1, Append(cur, s[i]))

SplitLines(s) == SplitFrom(s, 1, <<>>)

\* the number of digits the line ends with: what (\d+)$ captures
NumTrailing(l, set) ==
    CHOOSE n \in 0..Len(l) :
        /\ \A j \in (Len(l) - n + 1)..Len(l) : l[j] \in set
        /\ (n = Len(l) \/ l[Len(l) - n] \notin set)

EndsWith(l, lit) ==
    /\ Len(l) >= Len(lit)
    /\ SubSeq(l, Len(l) - Len(lit) + 1, Len(l)) = lit

Contains(l, lit) ==
    \E i \in 1..(Len(l) - Len(lit) + 1) : SubSeq(l, i, i + Len(lit) - 1) = lit

LitAgentRun == <<"a", "g", "e", "n", "t", " ", "r", "u", "n">>
LitProcessAgent == <<"p", "r", "o", "c", "e", "s", "s", "-", "a", "g", "e", "n", "t", " ">>
LitSecurityAgent == <<"s", "e", "c", "u", "r", "i", "t", "y", "-", "a", "g", "e", "n", "t", " ">>
LitTraceAgent == <<"t", "r", "a", "c", "e", "-", "a", "g", "e", "n", "t", " ">>

\* Regex "agent run *(\d+)$": group 1 of the match, <<>> when there is none.
agent_regex(l) ==
    LET n == NumTrailing(l, Digit)
        before == SubSeq(l, 1, Len(l) - n)
        sp == NumTrailing(before, {" "})
    IN IF n > 0 /\ EndsWith(SubSeq(before, 1, Len(before) - sp), LitAgentRun)
       THEN SubSeq(l, Len(l) - n + 1, Len(l))
       ELSE <<>>

\* Regex "<name>-agent .* (\d+)$", lit being "<name>-agent " with its space.
role_regex(lit, l) ==
    LET n == NumTrailing(l, Digit)
        before == SubSeq(l, 1, Len(l) - n)
    IN IF /\ n > 0
          /\ Len(before) > 0
          /\ before[Len(before)] = " "
          /\ Contains(SubSeq(before, 1, Len(before) - 1), lit)
       THEN SubSeq(l, Len(l) - n + 1, Len(l))
       ELSE <<>>

process_agent_regex(l) == role_regex(LitProcessAgent, l)
security_agent_regex(l) == role_regex(LitSecurityAgent, l)
trace_agent_regex(l) == role_regex(LitTraceAgent, l)

\* variant: the values of a role's lines are added up
AssignSum(old, cap) == old + Parse(cap)

\* the assignment of one matched role: the parsed capture replaces the value
Assign(old, cap) == Parse(cap)

\* body of the for loop over the lines of one chunk
ScanLine(v, l) ==
    [agent |-> IF agent_regex(l) # <<>>
               THEN Assign(v.agent, agent_regex(l)) ELSE v.agent,
     process_agent |-> IF process_agent_regex(l) # <<>>
               THEN Assign(v.process_agent, process_agent_regex(l))
               ELSE v.process_agent,
     security_agent |-> IF security_agent_regex(l) # <<>>
               THEN Assign(v.security_agent, security_agent_regex(l))
               ELSE v.security_agent,
     trace_agent |-> IF trace_agent_regex(l) # <<>>
               THEN Assign(v.trace_agent, trace_agent_regex(l))
               ELSE v.trace_agent]

RECURSIVE ScanLines(_, _)
ScanLines(v, ls) ==
    IF ls = <<>> THEN v ELSE ScanLines(ScanLine(v, Head(ls)), Tail(ls))

\* one iteration of the while loop: a chunk decoded, split and scanned
ScanChunk(v, message) == ScanLines(v, SplitLines(message))

\* --------------------------------------------------- exec output streams

\* One item of the attached exec's output: Ok(LogOutput::<kind>{message})
\* or Err.
OkItem(kind, message) == [ok |-> TRUE, kind |-> kind, message |-> message]
ErrItem == [ok |-> FALSE, kind |-> "Err", message |-> <<>>]

LineA12 == LitAgentRun \o <<" ", " ", "1", "2">>
LineP3 == LitProcessAgent \o <<"-", "c", " ", "3">>
LineS4 == LitSecurityAgent \o <<"-", "c", " ", "4">>
LineT5 == LitTraceAgent \o <<"-", "c", " ", "5">>
LineT0 == LitTraceAgent \o <<"-", "c", " ", "0">>
LinePs == <<"p", "s", " ", "-", "a", "e", "o", " ", "9", "6">>

LinePool == {LineA12, LineP3, LineS4, LineT5, LineT0, LinePs}

RECURSIVE MkText(_)
MkText(ls) == IF ls = <<>> THEN <<>> ELSE Head(ls) \o <<"\n">> \o MkText(Tail(ls))

WholeStream(ls) == IF ls = <<>> THEN <<>> ELSE <<OkItem("StdOut", MkText(ls))>>
PerLineStream(ls) == [j \in 1..Len(ls) |-> OkItem("StdOut", ls[j] \o <<"\n">>)]

LineSeqs(n) == UNION {[1..m -> LinePool] : m \in 0..n}

\* every output of at most MaxLines pool lines, as one chunk or one per line
ProbeStreams ==
    {WholeStream(ls) : ls \in LineSeqs(MaxLines)}
        \cup {PerLineStream(ls) : ls \in LineSeqs(MaxLines)}

\* a few outputs: complete, one role missing, a role reported as 0, empty
FewStreams ==
    {WholeStream(<<LineA12, LineP3, LineS4, LineT5>>),
     PerLineStream(<<LinePs, LineA12, LineP3, LineS4>>),
     <<OkItem("StdOut", MkText(<<LineA12, LineP3>>)),
       OkItem("StdErr", MkText(<<LineS4, LineT0>>))>>,
     <<>>}

\* the two-chunk deliveries of a text: the boundary at every inner position
Cuts(t) ==
    {<<OkItem("StdOut", SubSeq(t, 1, c)), OkItem("StdOut", SubSeq(t, c + 1, Len(t)))>> :
        c \in 1..(Len(t) - 1)}

\* the complete output, whole and cut in two at every position
CutStreams ==
    {WholeStream(<<LineA12, LineP3, LineS4, LineT5>>)}
        \cup Cuts(MkText(<<LineA12, LineP3, LineS4, LineT5>>))

\* the stream s with an error item put in at position k
ErrAt(s, k) == SubSeq(s, 1, k - 1) \o <<ErrItem>> \o SubSeq(s, k, Len(s))

\* an output of five lines, one per chunk, that fails at every position
ErrStreams ==
    {ErrAt(PerLineStream(<<LineA12, LineP3, LineS4, LineT5, LineT0>>), k) :
        k \in 1..6}

\* short outputs: empty, one chunk, two chunks, a chunk and an error
ShortStreams ==
    {<<>>,
     <<OkItem("StdOut", <<"9", "6", "\n">>)>>,
     <<OkItem("StdOut", <<"9", "\n">>), OkItem("StdErr", <<"6", "\n">>)>>,
     <<OkItem("StdOut", <<"9", "\n">>), ErrItem>>}

\* ------------------------------------------------------------------ state

\* PORT: the shared counter; allocated: the ports fetch_add has returned, in
\* order; nevals: evaluations begun; ev: each thread's evaluation
VARIABLES PORT, allocated, nevals, ev

vars == <<PORT, allocated, nevals, ev>>

EvInit ==
    [pc |-> "idle", panic |-> "",
     conf |-> "", seconds |-> 0, payloads |-> FALSE, config |-> None,
     confvar |-> "", port |-> 0, env |-> <<>>, volumes |-> <<>>,
     inst |-> "Absent", host_port |-> 0,
     elapsed |-> 0, i |-> 0, k |-> 0, emitted |-> 0, errors |-> 0,
     output |-> <<>>, pos |-> 0,
     agent |-> 0, process_agent |-> 0, security_agent |-> 0, trace_agent |-> 0,
     memory |-> None, ops |-> <<>>, genes |-> <<>>, mconf |-> None]

Init ==
    /\ PORT = PortLow
    /\ allocated = <<>>
    /\ nevals = 0
    /\ ev = [p \in Procs |-> EvInit]

\* variant: the abort tears the instance down on its way out
PanicWithTeardown(e, why) ==
    [e EXCEPT !.pc = "panicked", !.panic = why,
              !.inst = IF @ = "Absent" THEN @ ELSE "Stopped",
              !.ops = Append(@, "stop")]

Panic(e, why) == [e EXCEPT !.pc = "panicked", !.panic = why]

\* ------------------------------------------------- run_container_with_conf_string

BaseEnv == <<"DD_SITE=datad0g.com", "DD_API_KEY=00001">>
LdPreload == "LD_PRELOAD=/opt/lib/nosys.so:/opt/datadog-agent/embedded/lib/libjemalloc.so"
SocketVolume == "/var/run/docker.sock:/var/run/docker.sock:ro"
Cwd == "/cwd"

\* env::current_dir().map(|cwd| cwd.join(c)) on a relative path
AbsPath(c) == Cwd \o "/" \o c

\* let conf = if conf == "" { String::new() } else { format!(..) }
FormatConf(conf) == IF conf = "" THEN "" ELSE "MALLOC_CONF=" \o conf

\* variant: the preload and the tuning variable are pushed unconditionally
BuildEnvAlways(confvar) == BaseEnv \o <<LdPreload, confvar>>

\* vec![DD_SITE, DD_API_KEY], and LD_PRELOAD and conf pushed if conf != ""
BuildEnv(confvar) ==
    IF confvar # "" THEN BaseEnv \o <<LdPreload, confvar>> ELSE BaseEnv

BuildVolumes(config) ==
    IF config # None
    THEN <<SocketVolume, config[1] \o ":/etc/datadog-agent/datadog.yaml">>
    ELSE <<SocketVolume>>

\* Entry: the arguments are received, the overlay path made absolute
\* (a failure of current_dir panics) and the tuning string formatted.
Begin(p, Confs, Secs, Loads, Configs, max) ==
    /\ ev[p].pc \in {"idle", "returned"}
    /\ nevals < max
    /\ nevals' = nevals + 1
    /\ \E c \in Confs, s \in Secs, l \in Loads, g \in Configs :
         \E cwdok \in (IF g = None THEN {TRUE} ELSE BOOLEAN) :
           LET e == [EvInit EXCEPT !.conf = c, !.seconds = s, !.payloads = l]
           IN ev' = [ev EXCEPT ![p] =
                IF cwdok
                THEN [e EXCEPT !.pc = "connect",
                               !.config = IF g = None THEN None
                                          ELSE Some(AbsPath(g[1])),
                               !.confvar = FormatConf(c)]
                ELSE Panic(e, "can get absolute path")]
    /\ UNCHANGED <<PORT, allocated>>

\* Docker::connect_with_socket_defaults().unwrap(); get_name()
Connect(p) ==
    /\ ev[p].pc = "connect"
    /\ \E ok \in BOOLEAN :
         ev' = [ev EXCEPT ![p] =
                IF ok THEN [@ EXCEPT !.pc = "fetch_add"] ELSE Panic(@, "connect")]
    /\ UNCHANGED <<PORT, allocated, nevals>>

\* let port = PORT.fetch_add(1, Ordering::Relaxed)
FetchAdd(p) ==
    /\ ev[p].pc = "fetch_add"
    /\ PORT' = (PORT + 1) % U16
    /\ ev' = [ev EXCEPT ![p] = [@ EXCEPT !.pc = "wrap", !.port = PORT,
                                         !.ops = Append(@, "alloc")]]
    /\ allocated' = Append(allocated, PORT)
    /\ UNCHANGED nevals

\* if port > 12700 { PORT.store(12500) }
MustWrap(port) == port > PortHigh

\* the wraparound store, then the environment and the bind mounts
WrapStore(p) ==
    /\ ev[p].pc = "wrap"
    /\ PORT' = IF MustWrap(ev[p].port) THEN PortLow ELSE PORT
    /\ ev' = [ev EXCEPT ![p] = [@ EXCEPT !.pc = "create",
                                         !.env = BuildEnv(ev[p].confvar),
                                         !.volumes = BuildVolumes(ev[p].config)]]
    /\ UNCHANGED <<allocated, nevals>>

\* docker.create_container(..).await.unwrap()
CreateContainer(p) ==
    /\ ev[p].pc = "create"
    /\ \E ok \in BOOLEAN :
         ev' = [ev EXCEPT ![p] =
                IF ok
                THEN [@ EXCEPT !.pc = "start", !.inst = "Created",
                               !.host_port = ev[p].port,
                               !.ops = Append(@, "create")]
                ELSE Panic([@ EXCEPT !.ops = Append(@, "create")], "create")]
    /\ UNCHANGED <<PORT, allocated, nevals>>

\* variant: a failed start is issued again
StartContainerRetried(p) ==
    /\ ev[p].pc = "start"
    /\ \E ok \in BOOLEAN :
         ev' = [ev EXCEPT ![p] =
                IF ok
                THEN [@ EXCEPT !.pc = "window", !.inst = "Running",
                               !.ops = Append(@, "start")]
                ELSE IF Len(ev[p].ops) < 4
                THEN [@ EXCEPT !.ops = Append(@, "start")]
                ELSE Panic([@ EXCEPT !.ops = Append(@, "start")], "start")]
    /\ UNCHANGED <<PORT, allocated, nevals>>

\* docker.start_container(..).await.unwrap()
StartContainer(p) ==
    /\ ev[p].pc = "start"
    /\ \E ok \in BOOLEAN :
         ev' = [ev EXCEPT ![p] =
                IF ok
                THEN [@ EXCEPT !.pc = "window", !.inst = "Running",
                               !.ops = Append(@, "start")]
                ELSE Panic([@ EXCEPT !.ops = Append(@, "start")], "start")]
    /\ UNCHANGED <<PORT, allocated, nevals>>

\* variant: the idle wait is taken whatever the load flag says
SleepAnyway(p) ==
    /\ ev[p].pc = "window"
    /\ ev' = [ev EXCEPT ![p] = [@ EXCEPT !.pc = "exec_create",
                                         !.elapsed = ev[p].seconds,
                                         !.ops = Append(@, "sleep")]]
    /\ UNCHANGED <<PORT, allocated, nevals>>

\* the else branch of if payloads: tokio::time::sleep(seconds)
Sleep(p) ==
    /\ ev[p].pc = "window"
    /\ ~ev[p].payloads
    /\ ev' = [ev EXCEPT ![p] = [@ EXCEPT !.pc = "exec_create",
                                         !.elapsed = ev[p].seconds,
                                         !.ops = Append(@, "sleep")]]
    /\ UNCHANGED <<PORT, allocated, nevals>>

\* ------------------------------------------------------------ dogstatsd::spam

\* let start = Instant::now(); Client::new(..).unwrap()
SpamBegin(p) ==
    /\ ev[p].pc = "window"
    /\ ev[p].payloads
    /\ \E ok \in BOOLEAN :
         ev' = [ev EXCEPT ![p] =
                IF ok
                THEN [@ EXCEPT !.pc = "spam_check", !.elapsed = 0,
                               !.emitted = 0, !.ops = Append(@, "spam")]
                ELSE Panic([@ EXCEPT !.ops = Append(@, "spam")], "client")]
    /\ UNCHANGED <<PORT, allocated, nevals>>

\* the wall clock advances while spam runs (start.elapsed() grows)
Tick(p) ==
    /\ ev[p].pc \in {"spam_check", "emit", "yield"}
    /\ ev[p].elapsed <= MaxSeconds
    /\ ev' = [ev EXCEPT ![p] = [@ EXCEPT !.elapsed = @ + 1]]
    /\ UNCHANGED <<PORT, allocated, nevals>>

\* variant: the time limit is never found exceeded
TimeUpNever(p) == ev[p].elapsed < 0

\* start.elapsed() > timelimit
TimeUp(p) == ev[p].elapsed > ev[p].seconds

\* top of the loop: return when the time is up, else start a batch
SpamCheck(p) ==
    /\ ev[p].pc = "spam_check"
    /\ ev' = [ev EXCEPT ![p] =
              IF TimeUp(p)
              THEN [@ EXCEPT !.pc = "exec_create"]
              ELSE [@ EXCEPT !.pc = "emit", !.i = 0, !.k = 0, !.emitted = 0]]
    /\ UNCHANGED <<PORT, allocated, nevals>>

\* variant: the error of a client call is dropped and the call repeated
EmitFailedIgnored(e) == [e EXCEPT !.emitted = @ + 1, !.errors = 1]

\* what a failed client call leads to: .unwrap() panics
EmitFailed(e) ==
    Panic([e EXCEPT !.emitted = @ + 1, !.errors = 1,
                    !.i = 0, !.k = 0, !.elapsed = 0], "emit")

\* variant: the time limit is looked at after every call
EmitNextCut(e) ==
    IF e.elapsed > e.seconds
    THEN [e EXCEPT !.pc = "yield", !.i = 0, !.k = 0, !.emitted = @ + 1]
    ELSE IF e.k < 2 THEN [e EXCEPT !.k = @ + 1, !.emitted = @ + 1]
    ELSE IF e.i + 1 < NumSeries
    THEN [e EXCEPT !.i = @ + 1, !.k = 0, !.emitted = @ + 1]
    ELSE [e EXCEPT !.pc = "yield", !.i = 0, !.k = 0, !.emitted = @ + 1]

\* the position after a successful call: incr, decr, gauge of series i
EmitNext(e) ==
    IF e.k < 2 THEN [e EXCEPT !.k = @ + 1, !.emitted = @ + 1]
    ELSE IF e.i + 1 < NumSeries
    THEN [e EXCEPT !.i = @ + 1, !.k = 0, !.emitted = @ + 1]
    ELSE [e EXCEPT !.pc = "yield", !.i = 0, !.k = 0, !.emitted = @ + 1]

\* one client call of the for loop: client.incr / decr / gauge (..).unwrap()
Emit(p) ==
    /\ ev[p].pc = "emit"
    /\ \E ok \in BOOLEAN :
         ev' = [ev EXCEPT ![p] = IF ok THEN EmitNext(@) ELSE EmitFailed(@)]
    /\ UNCHANGED <<PORT, allocated, nevals>>

\* the for loop run through, every one of its 3 * 10000 client calls
\* succeeding
EmitBatch(p) ==
    /\ ev[p].pc = "emit"
    /\ ev' = [ev EXCEPT ![p] = [@ EXCEPT !.pc = "yield", !.i = 0, !.k = 0,
                                         !.emitted = 3 * NumSeries]]
    /\ UNCHANGED <<PORT, allocated, nevals>>

\* yield_now().await
Yield(p) ==
    /\ ev[p].pc = "yield"
    /\ ev' = [ev EXCEPT ![p] = [@ EXCEPT !.pc = "spam_check"]]
    /\ UNCHANGED <<PORT, allocated, nevals>>

\* ------------------------------------------------------------- get_memory

\* docker.create_exec(..).await.unwrap()
CreateExec(p) ==
    /\ ev[p].pc = "exec_create"
    /\ \E ok \in BOOLEAN :
         ev' = [ev EXCEPT ![p] =
                IF ok THEN [@ EXCEPT !.pc = "exec_start"]
                ELSE Panic(@, "create_exec")]
    /\ UNCHANGED <<PORT, allocated, nevals>>

\* docker.start_exec(..).await.unwrap(), attached or panic!("detached exec");
\* the four role values start at 0
StartExec(p, Streams) ==
    /\ ev[p].pc = "exec_start"
    /\ \/ \E o \in Streams :
            ev' = [ev EXCEPT ![p] =
                   [@ EXCEPT !.pc = "scan", !.output = o, !.pos = 0,
                             !.agent = 0, !.process_agent = 0,
                             !.security_agent = 0, !.trace_agent = 0,
                             !.ops = Append(@, "exec")]]
       \/ \E why \in {"start_exec", "detached exec"} :
            ev' = [ev EXCEPT ![p] =
                   Panic([@ EXCEPT !.ops = Append(@, "exec")], why)]
    /\ UNCHANGED <<PORT, allocated, nevals>>

RoleValues(e) ==
    [agent |-> e.agent, process_agent |-> e.process_agent,
     security_agent |-> e.security_agent, trace_agent |-> e.trace_agent]

\* variant: an error item is passed over and the reading goes on
ScanNextSkipsErr(p) ==
    /\ ev[p].pc = "scan"
    /\ LET e == ev[p]
           n == e.pos + 1
       IN IF n <= Len(e.output)
          THEN LET v == IF e.output[n].ok
                        THEN ScanChunk(RoleValues(e), e.output[n].message)
                        ELSE RoleValues(e)
               IN ev' = [ev EXCEPT ![p] =
                         [@ EXCEPT !.pos = n, !.agent = v.agent,
                                   !.process_agent = v.process_agent,
                                   !.security_agent = v.security_agent,
                                   !.trace_agent = v.trace_agent]]
          ELSE ev' = [ev EXCEPT ![p] =
                      [@ EXCEPT !.pc = "stop",
                                !.memory = MemoryStatsNew(e.agent, e.process_agent,
                                               e.security_agent, e.trace_agent)]]
    /\ UNCHANGED <<PORT, allocated, nevals>>

\* while let Some(Ok(o)) = output.next().await { .. }: one item is taken;
\* a chunk is scanned, the end of the stream or an error item ends the loop
ScanNext(p) ==
    /\ ev[p].pc = "scan"
    /\ LET e == ev[p]
           n == e.pos + 1
       IN IF n <= Len(e.output) /\ e.output[n].ok
          THEN LET v == ScanChunk(RoleValues(e), e.output[n].message)
               IN ev' = [ev EXCEPT ![p] =
                         [@ EXCEPT !.pos = n, !.agent = v.agent,
                                   !.process_agent = v.process_agent,
                                   !.security_agent = v.security_agent,
                                   !.trace_agent = v.trace_agent]]
          ELSE ev' = [ev EXCEPT ![p] =
                      [@ EXCEPT !.pc = "stop",
                                !.memory = MemoryStatsNew(e.agent, e.process_agent,
                                               e.security_agent, e.trace_agent)]]
    /\ UNCHANGED <<PORT, allocated, nevals>>

\* ------------------------------------ run_container_with_conf_string, the end

\* variant: a failed stop is swallowed and the reading returned
StopFailedReturns(e) == [e EXCEPT !.pc = "returned", !.ops = Append(@, "stop")]

\* what a failed stop_container leads to: .unwrap() panics
StopFailed(e) == Panic([e EXCEPT !.ops = Append(@, "stop")], "stop")

\* docker.stop_container(&name, None).await.unwrap(); memory
StopContainer(p) ==
    /\ ev[p].pc = "stop"
    /\ \E ok \in BOOLEAN :
         ev' = [ev EXCEPT ![p] =
                IF ok
                THEN [@ EXCEPT !.pc = "returned", !.inst = "Stopped",
                               !.ops = Append(@, "stop")]
                ELSE StopFailed(@)]
    /\ UNCHANGED <<PORT, allocated, nevals>>

\* ------------------------------------------------------------------ main

\* interpret: the genes are turned into a MallocConf and its string printed
Interpret(p, Vectors) ==
    /\ ev[p].pc = "idle"
    /\ nevals = 0
    /\ \E g \in Vectors :
         ev' = [ev EXCEPT ![p] =
                [@ EXCEPT !.pc = "interpreted", !.genes = g,
                          !.mconf = Some(MallocConfFrom(g)),
                          !.conf = to_string(MallocConfFrom(g))]]
    /\ UNCHANGED <<PORT, allocated, nevals>>

\* ---------------------------------------------------------- specifications

\* tuning strings given to the harness: none (the baseline) and one
Confs == {"", "narenas:1"}
\* configuration overlays: none and one relative path
Configs == {None, Some("dd.yaml")}

\* the steps of an evaluation that every caller can reach
Harness(p, Streams) ==
    \/ Connect(p)
    \/ FetchAdd(p)
    \/ WrapStore(p)
    \/ CreateContainer(p)
    \/ StartContainer(p)
    \/ Sleep(p)
    \/ CreateExec(p)
    \/ StartExec(p, Streams)
    \/ ScanNext(p)
    \/ StopContainer(p)

\* the steps of the load generator
Load(p) ==
    \/ SpamBegin(p)
    \/ Tick(p)
    \/ SpamCheck(p)
    \/ Emit(p)
    \/ Yield(p)

\* A search run on one thread: evaluation after evaluation, each with an
\* idle window of RUN_FOR_SECONDS.
Next ==
    \/ Begin(1, Confs, {RUN_FOR_SECONDS}, {FALSE}, Configs, MaxEvals)
    \/ Harness(1, FewStreams)

Spec == Init /\ [][Next]_vars

\* The run subcommand with its default (empty) tuning string: one
\* evaluation, with or without load.
NextRun ==
    \/ Begin(1, {""}, 0..MaxSeconds, BOOLEAN, {None}, 1)
    \/ Harness(1, FewStreams)
    \/ Load(1)

SpecRun == Init /\ [][NextRun]_vars

\* One idle evaluation of the baseline over every probe output.
NextProbe ==
    \/ Begin(1, {""}, {0}, {FALSE}, {None}, 1)
    \/ Harness(1, ProbeStreams)

SpecProbe == Init /\ [][NextProbe]_vars

\* One idle evaluation of the baseline over the output delivered in two
\* chunks and over the output whose stream fails.
NextStream ==
    \/ Begin(1, {""}, {0}, {FALSE}, {None}, 1)
    \/ Harness(1, CutStreams \cup ErrStreams)

SpecStream == Init /\ [][NextStream]_vars

\* The steps of the one thread of an evaluation whose emissions all succeed.
Running(p) ==
    \/ Harness(p, ShortStreams)
    \/ SpamBegin(p)
    \/ SpamCheck(p)
    \/ EmitBatch(p)
    \/ Yield(p)

\* One evaluation, idle or under load, whose emissions all succeed.
NextLive ==
    \/ Begin(1, {""}, 0..MaxSeconds, BOOLEAN, {None}, 1)
    \/ Running(1)
    \/ Tick(1)

\* The runtime keeps polling the task of the evaluation, and the wall clock
\* keeps advancing while the load generator runs.
SpecLive ==
    /\ Init
    /\ [][NextLive]_vars
    /\ WF_vars(Running(1))
    /\ WF_vars(Tick(1))

\* what the thread holds that has just returned from the evaluation bound to
\* port 12700: tuned, idle window, no output from the probe
ReturnedLast ==
    [EvInit EXCEPT !.pc = "returned", !.conf = "narenas:1",
                   !.seconds = RUN_FOR_SECONDS,
                   !.confvar = FormatConf("narenas:1"),
                   !.port = PortHigh, !.host_port = PortHigh,
                   !.env = BuildEnv(FormatConf("narenas:1")),
                   !.volumes = BuildVolumes(None),
                   !.inst = "Stopped", !.elapsed = RUN_FOR_SECONDS,
                   !.ops = <<"alloc", "create", "start", "sleep", "exec", "stop">>]

\* The search with parallel fitness: the threads evaluate side by side.  The
\* run is taken up after thread 1 has made 201 evaluations one after the
\* other, the counter standing at 12701, the other threads not yet started.
InitConc ==
    /\ PORT = PortHigh + 1
    /\ allocated = [j \in 1..(PortHigh - PortLow + 1) |-> PortLow + j - 1]
    /\ nevals = PortHigh - PortLow + 1
    /\ ev = [p \in Procs |-> IF p = 1 THEN ReturnedLast ELSE EvInit]

NextConc ==
    \E p \in Procs :
        \/ Begin(p, {"narenas:1"}, {RUN_FOR_SECONDS}, {FALSE}, {None},
                 PortHigh - PortLow + 1 + MaxConcEvals)
        \/ Harness(p, {<<>>, WholeStream(<<LineA12, LineP3, LineS4, LineT5>>)})

SpecConc == InitConc /\ [][NextConc]_vars

\* The interpret subcommand over the chromosomes.
NextCodec == Interpret(1, GeneVectors)

SpecCodec == Init /\ [][NextCodec]_vars

\* ----------------------------------------------------------------- claims

Range(f) == {f[j] : j \in DOMAIN f}

\* C1: whenever an evaluation has returned to its caller, with a valid or an
\* invalid reading, the instance it started has been stopped: the last
\* daemon operation is a stop that succeeded, and nothing is left Running.
C1_ReturnedImpliesStopped ==
    \A p \in Procs :
        ev[p].pc = "returned" =>
            /\ ev[p].inst = "Stopped"
            /\ ev[p].ops # <<>>
            /\ ev[p].ops[Len(ev[p].ops)] = "stop"

\* an evaluation under load has returned a valid reading
C1_Witness ==
    \E p \in Procs :
        /\ ev[p].pc = "returned"
        /\ ev[p].payloads
        /\ ev[p].memory # None
        /\ ev[p].inst = "Stopped"

\* C2: every port handed to an instance (the value fetch_add returned, bound
\* as the host port) lies in the pool, 12500 <= port < 12700.
C2_PortInPool ==
    /\ \A j \in DOMAIN allocated : PortLow <= allocated[j] /\ allocated[j] < PortHigh
    /\ \A p \in Procs :
         ev[p].inst # "Absent" =>
             PortLow <= ev[p].host_port /\ ev[p].host_port < PortHigh

\* C3: sequential allocations from the initial counter start at the lower
\* bound and grow by one until the pool's upper bound is reached; the next
\* allocation is then the lower bound again (whether the upper bound itself
\* is the last port of a cycle or the first one excluded), so that no port
\* is handed out twice within one cycle.
C3_SequentialWrap ==
    /\ allocated # <<>> => allocated[1] = PortLow
    /\ \A j \in 1..(Len(allocated) - 1) :
         IF allocated[j] + 1 < PortHigh
         THEN allocated[j + 1] = allocated[j] + 1
         ELSE IF allocated[j] + 1 = PortHigh
         THEN allocated[j + 1] \in {PortHigh, PortLow}
         ELSE allocated[j + 1] = PortLow

\* the lines the probe has scanned: the pieces of the first n chunks, in order
RECURSIVE Pieces(_, _)
Pieces(output, n) ==
    IF n = 0 THEN <<>>
    ELSE Pieces(output, n - 1) \o SplitLines(output[n].message)

Scanned(e) == Pieces(e.output, e.pos)

Roles == {"agent", "process_agent", "security_agent", "trace_agent"}

\* group 1 of the role's pattern on a line, <<>> when the line does not match
Capture(role, l) ==
    CASE role = "agent" -> agent_regex(l)
      [] role = "process_agent" -> process_agent_regex(l)
      [] role = "security_agent" -> security_agent_regex(l)
      [] role = "trace_agent" -> trace_agent_regex(l)

\* the positions of the scanned lines that match the role's pattern
MatchesOf(role, ls) == {j \in DOMAIN ls : Capture(role, ls[j]) # <<>>}

Last(S) == CHOOSE j \in S : \A h \in S : h <= j

Probed(e) == e.pc \in {"stop", "returned"}

\* C4: the aggregator returns a present reading whose total is the exact sum
\* of the four role values if and only if all four are strictly positive;
\* with any role at 0 it returns absent, never a partial sum.
C4_AggregateIffAllPositive ==
    \A p \in Procs :
        Probed(ev[p]) =>
            LET v == RoleValues(ev[p])
                all == \A r \in Roles : v[r] > 0
            IN /\ (ev[p].memory # None) <=> all
               /\ all => /\ ev[p].memory = Some(v)
                         /\ total(ev[p].memory[1]) =
                              v.agent + v.process_agent
                                + v.security_agent + v.trace_agent
               /\ ~all => ev[p].memory = None

\* the four roles read 12, 3, 4 and 5 and the reading totals 24
C4_Witness ==
    \E p \in Procs :
        /\ ev[p].pc = "returned"
        /\ ev[p].memory # None
        /\ RoleValues(ev[p]) = [agent |-> 12, process_agent |-> 3,
                                security_agent |-> 4, trace_agent |-> 5]
        /\ total(ev[p].memory[1]) = 24

\* C5: when no line of the probe output matches the pattern of some role,
\* that role's value stays 0 and the evaluation yields an absent reading as a
\* normal result: it goes on to stop the instance and returns None.
C5_MissingRoleYieldsNone ==
    \A p \in Procs :
        Probed(ev[p]) =>
            LET ls == Scanned(ev[p])
            IN \A r \in Roles :
                 MatchesOf(r, ls) = {} =>
                     /\ RoleValues(ev[p])[r] = 0
                     /\ ev[p].memory = None
                     /\ ev[p].pc = "returned" => ev[p].inst = "Stopped"

\* three roles matched, the fourth never did, and None was returned after
\* the stop
C5_Witness ==
    \E p \in Procs :
        /\ ev[p].pc = "returned"
        /\ ev[p].inst = "Stopped"
        /\ ev[p].memory = None
        /\ MatchesOf("trace_agent", Scanned(ev[p])) = {}
        /\ \A r \in Roles \ {"trace_agent"} : MatchesOf(r, Scanned(ev[p])) # {}

\* C6: the value the probe retains for a role at the end of the scan is the
\* integer parsed from the last scanned line matching the role's pattern
\* (values are not summed), and 0 when no line matched: lines matching no
\* pattern change nothing.
C6_LastMatchWins ==
    \A p \in Procs :
        ev[p].pc = "stop" =>
            LET ls == Scanned(ev[p])
            IN \A r \in Roles :
                 LET m == MatchesOf(r, ls)
                 IN RoleValues(ev[p])[r] =
                        IF m = {} THEN 0 ELSE Parse(Capture(r, ls[Last(m)]))

\* the trace role was reported twice, in two chunks, as 0 and then as 5, a
\* line matching nothing came last, and 5 is retained
C6_Witness ==
    \E p \in Procs :
        /\ ev[p].pc = "stop"
        /\ ev[p].pos = 3
        /\ ev[p].output[1].message = LineT0 \o <<"\n">>
        /\ ev[p].output[2].message = LineT5 \o <<"\n">>
        /\ ev[p].output[3].message = LinePs \o <<"\n">>
        /\ ev[p].trace_agent = 5

Count(x, f) == Cardinality({j \in DOMAIN f : f[j] = x})

AfterWindow(e) ==
    \/ e.pc \in {"exec_create", "exec_start", "scan", "stop", "returned"}
    \/ e.pc = "panicked"
         /\ e.panic \in {"create_exec", "start_exec", "detached exec", "stop"}

\* C7: the instance environment holds the LD_PRELOAD variable and
\* MALLOC_CONF=<tuning string> if and only if the tuning string is non-empty,
\* the base variables in both cases and nothing else; the mounts, the port
\* binding and the sequence of steps do not depend on the tuning string.
C7_PreloadIffTuned ==
    \A p \in Procs :
        LET e == ev[p]
        IN (e.pc \in {"create", "start", "window", "exec_create", "exec_start",
                      "scan", "stop", "returned"}) =>
             /\ LdPreload \in Range(e.env) <=> e.conf # ""
             /\ ("MALLOC_CONF=" \o e.conf) \in Range(e.env) <=> e.conf # ""
             /\ "DD_SITE=datad0g.com" \in Range(e.env)
             /\ "DD_API_KEY=00001" \in Range(e.env)
             /\ Len(e.env) = IF e.conf = "" THEN 2 ELSE 4
             /\ e.volumes[1] = SocketVolume
             /\ Len(e.volumes) = IF e.config = None THEN 1 ELSE 2
             /\ e.inst # "Absent" => e.host_port = e.port
             /\ e.pc = "returned" =>
                  e.ops = <<"alloc", "create", "start",
                            IF e.payloads THEN "spam" ELSE "sleep",
                            "exec", "stop">>

\* a tuned evaluation has returned: four variables, the last two being the
\* preload and the tuning string
C7_Witness ==
    \E p \in Procs :
        /\ ev[p].pc = "returned"
        /\ ev[p].conf = "narenas:1"
        /\ ev[p].env = <<"DD_SITE=datad0g.com", "DD_API_KEY=00001",
                         LdPreload, "MALLOC_CONF=narenas:1">>

\* C8: between the start of the instance and the probe exactly one of the two
\* window modes runs, for the configured duration: the load generator when
\* the load flag is set, the idle wait when it is not; never both, never
\* neither.
C8_ExactlyOneWindowMode ==
    \A p \in Procs :
        LET e == ev[p]
        IN /\ ~("spam" \in Range(e.ops) /\ "sleep" \in Range(e.ops))
           /\ AfterWindow(e) =>
                /\ Count("spam", e.ops) + Count("sleep", e.ops) = 1
                /\ Count("spam", e.ops) = IF e.payloads THEN 1 ELSE 0
                /\ Count("sleep", e.ops) = IF e.payloads THEN 0 ELSE 1
                /\ e.ops[3] = "start"
                /\ e.ops[4] \in {"spam", "sleep"}
                /\ Len(e.ops) >= 5 => e.ops[5] = "exec"
           /\ e.pc = "exec_create" => e.elapsed >= e.seconds

\* the probe is reading after a load window
C8_Witness ==
    \E p \in Procs :
        /\ ev[p].pc = "scan"
        /\ ev[p].payloads
        /\ ev[p].ops = <<"alloc", "create", "start", "spam", "exec">>

InSpam(e) == e.pc \in {"spam_check", "emit", "yield"}

\* C9: the load generator looks at the clock only between batches: a batch
\* once started issues the increment, decrement and gauge of all 10000
\* series before the next check, whatever the clock does meanwhile; a batch
\* is started only while elapsed <= duration, and spam returns only from a
\* check at which elapsed > duration.
C9_CheckOnlyAtBatchBoundary ==
    /\ [](\A p \in Procs :
            /\ ev[p].pc = "spam_check" => ev[p].emitted \in {0, 3 * NumSeries}
            /\ ev[p].pc = "yield" => ev[p].emitted = 3 * NumSeries
            /\ ev[p].pc = "emit" => /\ ev[p].emitted = 3 * ev[p].i + ev[p].k
                                    /\ ev[p].emitted < 3 * NumSeries)
    /\ [][\A p \in Procs :
            /\ (InSpam(ev[p]) /\ ev'[p].pc = "exec_create") =>
                   /\ ev[p].pc = "spam_check"
                   /\ ev[p].elapsed > ev[p].seconds
            /\ (ev[p].pc = "spam_check" /\ ev'[p].pc = "emit") =>
                   /\ ev[p].elapsed <= ev[p].seconds
                   /\ ev'[p].emitted = 0
            /\ (ev[p].pc = "emit" /\ ev'[p].pc \in {"emit", "yield"}) =>
                   ev'[p].emitted \in {ev[p].emitted, ev[p].emitted + 1}
            /\ (ev[p].pc = "emit" /\ ev'[p].pc = "yield") =>
                   ev'[p].emitted = 3 * NumSeries
            /\ (ev[p].pc = "yield" /\ ev'[p].pc # "yield") =>
                   ev'[p].pc = "spam_check"
            /\ (ev[p].pc = "emit" /\ ev'[p].pc \notin {"emit", "yield"}) =>
                   ev'[p].pc = "panicked"]_vars

\* a batch that the time limit overtook has been completed all the same
C9_Witness ==
    \E p \in Procs :
        /\ ev[p].pc = "yield"
        /\ ev[p].emitted = 3 * NumSeries
        /\ ev[p].elapsed > ev[p].seconds

\* C10: a failed emission aborts the evaluation at once: the call is not
\* repeated, no further message is sent, the probe is not invoked, the
\* instance is not stopped and no reading is returned.
C10_EmissionFailureAborts ==
    /\ [](\A p \in Procs :
            ev[p].errors > 0 =>
                /\ ev[p].pc = "panicked"
                /\ ev[p].panic = "emit"
                /\ "exec" \notin Range(ev[p].ops)
                /\ "stop" \notin Range(ev[p].ops)
                /\ ev[p].memory = None
                /\ ev[p].inst = "Running")
    /\ [][\A p \in Procs :
            /\ ev[p].errors > 0 => ev'[p] = ev[p]
            /\ (ev[p].errors = 0 /\ ev'[p].errors > 0) =>
                   /\ ev[p].pc = "emit"
                   /\ ev'[p].emitted = ev[p].emitted + 1]_vars

\* the gauge of a series in the middle of a batch failed
C10_Witness ==
    \E p \in Procs :
        /\ ev[p].errors = 1
        /\ ev[p].pc = "panicked"
        /\ ev[p].inst = "Running"
        /\ ev[p].emitted = 15000

Keys(fs) == [j \in DOMAIN fs |-> fs[j][1]]

DerivedKeys ==
    {"background_thread", "narenas", "muzzy_decay_ms", "tcache_max",
     "oversize_threshold", "dss", "lg_extent_max_active_fit"}

\* C11 as stated: the tuning string of a chromosome has exactly 7 key:value
\* fields, each one of the 7 derived configuration fields.
C11_SevenFields ==
    \A p \in Procs :
        ev[p].pc = "interpreted" =>
            LET fs == ConfFields(ev[p].mconf[1])
            IN /\ Len(fs) = GenesSize
               /\ \A j \in DOMAIN fs : fs[j][1] \in DerivedKeys

\* C11 as the code has it: the tuning string is the comma-joined key:value
\* fields in one fixed order, the 7 derived fields once each and the two
\* constant fields tcache:false and dirty_decay_ms:0, 9 fields in all; the
\* all-zero chromosome gives the fields of Scenario A.
C11_NineFieldsFixedOrder ==
    \A p \in Procs :
        ev[p].pc = "interpreted" =>
            LET fs == ConfFields(ev[p].mconf[1])
            IN /\ Keys(fs) = <<"background_thread", "narenas", "tcache",
                               "dirty_decay_ms", "muzzy_decay_ms", "tcache_max",
                               "oversize_threshold", "dss",
                               "lg_extent_max_active_fit">>
               /\ fs[3][2] = "false"
               /\ fs[4][2] = "0"
               /\ ev[p].conf = JoinFields(fs)
               /\ ev[p].genes = [j \in 1..GenesSize |-> 0] =>
                    ev[p].conf = "background_thread:false,narenas:0,tcache:false,"
                        \o "dirty_decay_ms:0,muzzy_decay_ms:0,tcache_max:0,"
                        \o "oversize_threshold:0,dss:disabled,"
                        \o "lg_extent_max_active_fit:0"
               /\ ev[p].genes = <<19, 0, 0, 0, 0, 0, 0>> =>
                    ev[p].conf = "background_thread:false,narenas:0,tcache:false,"
                        \o "dirty_decay_ms:0,muzzy_decay_ms:0,tcache_max:123500,"
                        \o "oversize_threshold:0,dss:disabled,"
                        \o "lg_extent_max_active_fit:0"

\* the all-zero chromosome has been interpreted
C11_Witness ==
    \E p \in Procs :
        /\ ev[p].pc = "interpreted"
        /\ ev[p].genes = [j \in 1..GenesSize |-> 0]
        /\ Len(ConfFields(ev[p].mconf[1])) = 9

\* C12: the derived configuration is the reference derivation: cache
\* threshold v[0]*6500, oversize threshold v[1]*6500, arenas v[2], retention
\* mode disabled for v[3] in [0,3), primary in [3,7), secondary in [7,20),
\* background thread iff v[4] > 5, decay v[5]*100, extent fit v[6].
C12_ReferenceDerivation ==
    \A p \in Procs :
        ev[p].pc = "interpreted" =>
            LET v == ev[p].genes
                c == ev[p].mconf[1]
            IN /\ c.tchache_max = 6500 * v[1]
               /\ c.oversize_threshold = 6500 * v[2]
               /\ c.narenas = v[3]
               /\ c.dss = "disabled" <=> v[4] \in {0, 1, 2}
               /\ c.dss = "primary" <=> v[4] \in {3, 4, 5, 6}
               /\ c.dss = "secondary" <=> v[4] \in 7..19
               /\ c.background_thread <=> v[5] \in 6..19
               /\ c.muzzy_decay_ms = 100 * v[6]
               /\ c.lg_extent_max_active_fit = v[7]

\* a chromosome on the boundary 2|3: v[3] = 3 is primary
C12_Witness ==
    \E p \in Procs :
        /\ ev[p].pc = "interpreted"
        /\ ev[p].genes = <<0, 0, 0, 3, 0, 0, 0>>
        /\ ev[p].mconf[1].dss = "primary"
        /\ ~ev[p].mconf[1].background_thread

\* a read-only bind mount of a host path at a path of the instance
ReadOnlyBind(host, target) == host \o ":" \o target \o ":ro"

\* C13: every bind mount of the instance is read-only: the container-control
\* socket always, and the configuration overlay, when one is given, at
\* /etc/datadog-agent/datadog.yaml; without an overlay the socket is the
\* only mount.
C13_MountsReadOnly ==
    \A p \in Procs :
        ev[p].volumes # <<>> =>
            /\ ev[p].volumes[1] =
                 ReadOnlyBind("/var/run/docker.sock", "/var/run/docker.sock")
            /\ ev[p].config = None => Len(ev[p].volumes) = 1
            /\ ev[p].config # None =>
                 /\ Len(ev[p].volumes) = 2
                 /\ ev[p].volumes[2] =
                      ReadOnlyBind(ev[p].config[1],
                                   "/etc/datadog-agent/datadog.yaml")

\* an evaluation holds a port from the fetch_add to its return
InFlight(e) ==
    e.pc \in {"wrap", "create", "start", "window", "spam_check", "emit",
              "yield", "exec_create", "exec_start", "scan", "stop"}

\* C14: with the evaluations racing on PORT, no two evaluations in flight
\* hold the same port as long as at most 200 are in flight.
C14_NoDuplicateInFlight ==
    Cardinality({p \in Procs : InFlight(ev[p])}) <= PortHigh - PortLow =>
        \A p, q \in Procs :
            (p # q /\ InFlight(ev[p]) /\ InFlight(ev[q])) =>
                ev[p].port # ev[q].port

\* the daemon operations of a complete evaluation, in order
FullOps(e) ==
    <<"alloc", "create", "start", IF e.payloads THEN "spam" ELSE "sleep",
      "exec", "stop">>

IsPrefix(s, t) == Len(s) <= Len(t) /\ \A j \in 1..Len(s) : s[j] = t[j]

\* C15: in an evaluation that completes the operations happen once each, in
\* the order port allocation, create, start, measurement window, probe exec,
\* stop (no operation is ever repeated); the instance moves only
\* Created -> Running -> Stopped; the probe runs only while the instance is
\* Running and after the window has ended; nothing is issued after stop.
C15_OnceInFixedOrder ==
    /\ [](\A p \in Procs :
            LET e == ev[p]
            IN /\ IsPrefix(e.ops, FullOps(e))
               /\ e.pc = "returned" => (e.ops = FullOps(e) /\ e.inst = "Stopped")
               /\ e.pc \in {"exec_create", "exec_start", "scan"} =>
                    /\ e.inst = "Running"
                    /\ Len(e.ops) >= 4
                    /\ IF e.payloads THEN e.elapsed > e.seconds
                                     ELSE e.elapsed = e.seconds
               /\ e.inst = "Stopped" =>
                    (e.pc = "returned" /\ e.ops[Len(e.ops)] = "stop"))
    /\ [][\A p \in Procs :
            /\ ev'[p].inst # ev[p].inst =>
                 \/ <<ev[p].inst, ev'[p].inst>> \in
                      {<<"Absent", "Created">>, <<"Created", "Running">>,
                       <<"Running", "Stopped">>}
                 \/ ev[p].pc = "returned" /\ ev'[p].pc # "returned"
            /\ (ev[p].inst = "Stopped" /\ ev'[p].inst = "Stopped") =>
                 ev'[p].ops = ev[p].ops]_vars

\* an evaluation under load has completed with a valid reading
C15_Witness ==
    \E p \in Procs :
        /\ ev[p].pc = "returned"
        /\ ev[p].ops = <<"alloc", "create", "start", "spam", "exec", "stop">>
        /\ ev[p].seconds = MaxSeconds
        /\ ev[p].memory # None

\* the causes of an abort between the creation of the instance and its stop
ProbeAborts == {"create_exec", "start_exec", "detached exec"}

\* C16: teardown runs only where every earlier daemon call succeeded: when
\* start, exec-create or exec-start fails, or the exec is detached, the
\* evaluation aborts at that call for good, stop_container is never issued,
\* no reading is returned and the instance stays as it was (Created after a
\* failed start, Running otherwise); a failing create aborts with no
\* instance.
C16_FailureSkipsTeardown ==
    /\ [](\A p \in Procs :
            LET e == ev[p]
            IN /\ (e.pc = "panicked" /\ e.panic \in ProbeAborts \cup {"start"}) =>
                    /\ ~("stop" \in Range(e.ops))
                    /\ e.memory = None
                    /\ e.inst = IF e.panic = "start" THEN "Created" ELSE "Running"
                    /\ e.ops[Len(e.ops)] = IF e.panic = "start" THEN "start"
                                           ELSE IF e.panic = "create_exec"
                                           THEN FullOps(e)[4] ELSE "exec"
               /\ (e.pc = "panicked" /\ e.panic = "create") =>
                    /\ e.inst = "Absent"
                    /\ e.ops = <<"alloc", "create">>
               /\ "stop" \in Range(e.ops) =>
                    /\ e.ops = FullOps(e)
                    /\ e.inst \in {"Running", "Stopped"}
                    /\ e.pc \in {"returned", "panicked"}
                    /\ e.pc = "panicked" => e.panic = "stop")
    /\ [][\A p \in Procs : ev[p].pc = "panicked" => ev'[p] = ev[p]]_vars

\* an evaluation under load has aborted on a detached exec, its instance
\* still running
C16_Witness ==
    \E p \in Procs :
        /\ ev[p].pc = "panicked"
        /\ ev[p].panic = "detached exec"
        /\ ev[p].payloads
        /\ ev[p].inst = "Running"
        /\ ev[p].ops = <<"alloc", "create", "start", "spam", "exec">>

\* C17, as stated: the time advancing and every emission succeeding, the
\* load generator returns, and the evaluation then reaches the probe and the
\* stop of the instance.
C17_SpamThenProbeThenStop ==
    \A p \in Procs :
        /\ InSpam(ev[p]) ~> (ev[p].pc = "exec_create")
        /\ (ev[p].pc = "exec_create") ~> (ev[p].pc = "stop")

\* C17, amended: the time advancing and every emission succeeding, the load
\* generator returns and the evaluation reaches the probe; from there it
\* reaches the stop of the instance unless a daemon call of the probe fails
\* or the exec is detached, in which case it has aborted in the probe.
C17_SpamReturnsProbeReached ==
    \A p \in Procs :
        /\ InSpam(ev[p]) ~> (ev[p].pc = "exec_create")
        /\ (ev[p].pc = "exec_create") ~>
              \/ ev[p].pc = "stop"
              \/ ev[p].pc = "panicked" /\ ev[p].panic \in ProbeAborts

\* the load generator has run for the longest duration and the evaluation
\* stands at the stop of the instance
C17_Witness ==
    \E p \in Procs :
        /\ ev[p].pc = "stop"
        /\ ev[p].payloads
        /\ ev[p].seconds = MaxSeconds
        /\ ev[p].elapsed > MaxSeconds
        /\ ev[p].ops = <<"alloc", "create", "start", "spam", "exec">>

ZeroRoles ==
    [agent |-> 0, process_agent |-> 0, security_agent |-> 0, trace_agent |-> 0]

\* the text of the first n chunks put together
RECURSIVE Joined(_, _)
Joined(output, n) ==
    IF n = 0 THEN <<>> ELSE Joined(output, n - 1) \o output[n].message

AllOk(output) == \A j \in DOMAIN output : output[j].ok

\* C18: the role values the probe ends with depend only on the text of the
\* output, not on its division into chunks: they are those of scanning the
\* whole text split into lines, wherever the chunk boundaries fall.
C18_ChunkingIndependent ==
    \A p \in Procs :
        (ev[p].pc = "stop" /\ AllOk(ev[p].output)) =>
            RoleValues(ev[p]) =
                ScanChunk(ZeroRoles, Joined(ev[p].output, Len(ev[p].output)))

\* the role values after the first n chunks, scanned chunk by chunk
RECURSIVE ScanPrefix(_, _)
ScanPrefix(output, n) ==
    IF n = 0 THEN ZeroRoles
    ELSE ScanChunk(ScanPrefix(output, n - 1), output[n].message)

\* the position of the first error item of a stream that has one
FirstErr(output) ==
    CHOOSE j \in DOMAIN output :
        ~output[j].ok /\ \A h \in 1..(j - 1) : output[h].ok

\* the probe is over: get_memory has returned
ProbeOver(e) ==
    e.pc \in {"stop", "returned"} \/ (e.pc = "panicked" /\ e.panic = "stop")

\* C19: an error item of the exec output ends the reading without a failure:
\* no chunk after it is scanned, the reading is MemoryStats::new of the role
\* values parsed before it (present if all four are positive, else absent),
\* and the evaluation goes on to stop the instance.
C19_ErrorItemEndsScan ==
    /\ [](\A p \in Procs :
            LET e == ev[p]
            IN /\ \A j \in 1..e.pos : e.output[j].ok
               /\ (ProbeOver(e) /\ ~AllOk(e.output)) =>
                    LET v == ScanPrefix(e.output, FirstErr(e.output) - 1)
                    IN /\ e.pos = FirstErr(e.output) - 1
                       /\ RoleValues(e) = v
                       /\ e.memory = MemoryStatsNew(v.agent, v.process_agent,
                                         v.security_agent, v.trace_agent)
                       /\ e.pc = "returned" => e.inst = "Stopped")
    /\ [][\A p \in Procs :
            ev[p].pc = "scan" =>
                /\ ev'[p].pc \in {"scan", "stop"}
                /\ (ev[p].pos < Len(ev[p].output)
                      /\ ~ev[p].output[ev[p].pos + 1].ok) =>
                       /\ ev'[p].pc = "stop"
                       /\ RoleValues(ev'[p]) = RoleValues(ev[p])
                       /\ ev'[p].pos = ev[p].pos]_vars

\* the stream failed after the four roles were read, a further chunk was
\* left unscanned, and the evaluation returned the reading after the stop
C19_Witness ==
    \E p \in Procs :
        /\ ev[p].pc = "returned"
        /\ ev[p].inst = "Stopped"
        /\ Len(ev[p].output) = 6
        /\ ~ev[p].output[5].ok
        /\ ev[p].pos = 4
        /\ ev[p].memory = Some([agent |-> 12, process_agent |-> 3,
                                security_agent |-> 4, trace_agent |-> 5])

====
